---- MODULE Spec2Model ----
(***************************************************************************)
(* Model of sales_distribution.py: a Streamlit script that keeps, in the   *)
(* session state, one ledger per calendar week (a weekly target and an     *)
(* eight-row channel table), and re-runs top to bottom on every widget     *)
(* interaction.  Every action below is one complete script run triggered   *)
(* by one widget interaction (reruns requested by st.rerun() included).    *)
(*                                                                         *)
(* Numbers: the script computes with Python floats (IEEE 754 binary64).    *)
(* The values the user enters (targets, percentages, amounts) are kept as  *)
(* exact rationals [num, den]; those of the model are integers or halves,  *)
(* which binary64 holds exactly, and so are their products.  The Weekly    *)
(* Target column, the quotient weekly_target * p / 100, is computed as     *)
(* binary64 computes it, rounded to 53 significant bits, and kept as a     *)
(* fixed-point number with 69 fraction bits.  ROI and Conversion Rate are  *)
(* kept as the exact rationals their float values approximate.             *)
(***************************************************************************)
EXTENDS Integers, Sequences, FiniteSets

VARIABLES
    weekly_data,    \* st.session_state.weekly_data: week id -> ledger
    current_week,   \* st.session_state.current_week
    selected_week,  \* value of the "Select Week" selectbox
    now,            \* the wall clock read by datetime.now(): [year, week]
    ticks,          \* calendar weeks elapsed since the session started
    warning,        \* whether the last run showed the st.error of line 160
    df,             \* the metrics table the last run computed (line 343)
    event,          \* the widget interaction that triggered the last run
    runs            \* number of script runs triggered by the user so far

vars == <<weekly_data, current_week, selected_week, now, ticks, warning, df, event, runs>>

\* ------------------------------------------------------------------ bounds

MaxRuns == 3
MaxTicks == 1

\* ------------------------------------------------- exact rational numbers

RECURSIVE GCD(_, _)
GCD(a, b) == IF b = 0 THEN a ELSE GCD(b, a % b)

Abs(n) == IF n < 0 THEN -n ELSE n

\* the rational n/d (d # 0) in lowest terms with a positive denominator
Rat(n, d) ==
    LET g == GCD(Abs(n), Abs(d))
        s == IF d < 0 THEN -1 ELSE 1
    IN  [num |-> (s * n) \div g, den |-> (s * d) \div g]

FromInt(n) == [num |-> n, den |-> 1]

\* the outcome of a division by zero: no number
ZeroDivision == [num |-> 0, den |-> 0]

IsNumber(x) == x.den > 0

Plus(x, y) == Rat(x.num * y.den + y.num * x.den, x.den * y.den)
Minus(x, y) == Rat(x.num * y.den - y.num * x.den, x.den * y.den)
Times(x, y) == Rat(x.num * y.num, x.den * y.den)
Divide(x, y) == IF y.num = 0 THEN ZeroDivision ELSE Rat(x.num * y.den, x.den * y.num)
Greater(x, y) == x.num * y.den > y.num * x.den

Zero == FromInt(0)
Hundred == FromInt(100)

\* ------------------------------------------------------- binary64 numbers

\* a non-negative binary64 value below 2^31 and not below 2^-8 (or 0), as
\* the fixed-point number x[1] + x[2]/B + x[3]/B^2 + x[4]/B^3, B = 2^23
LimbBase == 2^23

FromInt64(n) == <<n, 0, 0, 0>>

RECURSIVE BitLength(_)
BitLength(n) == IF n = 0 THEN 0 ELSE 1 + BitLength(n \div 2)

\* the limbs brought back below B, the excess carried upwards
Carry(x) ==
    LET c3 == x[3] + (x[4] \div LimbBase)
        c2 == x[2] + (c3 \div LimbBase)
    IN  <<x[1] + (c2 \div LimbBase), c2 % LimbBase, c3 % LimbBase, x[4] % LimbBase>>

\* number of bits from the lowest fraction bit up to the leading one
Length64(x) ==
    IF x[1] > 0 THEN 69 + BitLength(x[1])
    ELSE IF x[2] > 0 THEN 46 + BitLength(x[2])
    ELSE IF x[3] > 0 THEN 23 + BitLength(x[3])
    ELSE BitLength(x[4])

\* bit k counts from the lowest fraction bit, bit 0; the limb that holds it
LimbOf(k) == 4 - (k \div 23)

BitAt(x, k) == (x[LimbOf(k)] \div 2^(k % 23)) % 2

AnyBitBelow(x, k) ==
    \/ x[LimbOf(k)] % 2^(k % 23) # 0
    \/ \E j \in (LimbOf(k) + 1)..4 : x[j] # 0

ClearBelow(x, k) ==
    [j \in 1..4 |->
        IF j < LimbOf(k) THEN x[j]
        ELSE IF j = LimbOf(k) THEN x[j] - (x[j] % 2^(k % 23))
        ELSE 0]

AddBit(x, k) ==
    Carry([j \in 1..4 |-> IF j = LimbOf(k) THEN x[j] + 2^(k % 23) ELSE x[j]])

\* round to nearest, ties to even, at 53 significant bits; sticky tells
\* that the exact value has bits below the lowest fraction bit
Round53(x, sticky) ==
    LET drop == Length64(x) - 53 IN
    IF drop <= 0 THEN x
    ELSE LET guard == BitAt(x, drop - 1)
             rest == sticky \/ AnyBitBelow(x, drop - 1)
             kept == ClearBelow(x, drop)
         IN  IF guard = 1 /\ (rest \/ BitAt(x, drop) = 1)
             THEN AddBit(kept, drop)
             ELSE kept

\* float addition x + y
Add64(x, y) ==
    Round53(Carry(<<x[1] + y[1], x[2] + y[2], x[3] + y[3], x[4] + y[4]>>), FALSE)

\* float division n / d of two naturals, 0 < d < 256, by long division
Divide64(n, d) ==
    LET r0 == n % d
        r1 == (r0 * LimbBase) % d
        r2 == (r1 * LimbBase) % d
        r3 == (r2 * LimbBase) % d
    IN  Round53(<<n \div d, (r0 * LimbBase) \div d, (r1 * LimbBase) \div d,
                  (r2 * LimbBase) \div d>>, r3 # 0)

\* float division x / y of two values held exactly as rationals
Quotient64(x, y) == Divide64(x.num * y.den, x.den * y.num)

\* -------------------------------------------------------- the channel table

\* the row index of the DataFrame
Rows == 0..7

ChannelNames ==
    <<"Whatsapp Broadcasting", "Meta Ads", "Google Ads", "Tele Calling",
      "Relationship Sales", "Community Conversion", "Organic Sales",
      "Academic Schools">>

DefaultWeeklyTarget == FromInt(50000)
DefaultPercentage == Rat(125, 10)
DefaultChannelTarget == FromInt64(6250)

\* the DataFrame built at first use
InitialChannelData ==
    [i \in Rows |->
        [Channel          |-> ChannelNames[i + 1],
         TargetPercentage |-> DefaultPercentage,
         WeeklyTarget     |-> DefaultChannelTarget,
         AmountSpent      |-> Zero,
         ActualSales      |-> Zero,
         SiteVisitsReach  |-> 0,
         CallsMade        |-> 0]]

InitialLedger ==
    [weekly_target |-> DefaultWeeklyTarget, channel_data |-> InitialChannelData]

\* total_percentage of lines 137 and 156: 0, then += the value of each row
RECURSIVE SumPercentages(_, _)
SumPercentages(channel_data, i) ==
    IF i < 0 THEN Zero
    ELSE Plus(SumPercentages(channel_data, i - 1), channel_data[i].TargetPercentage)

\* ------------------------------------------------------------ week identity

\* datetime.now().strftime('%Y-%U'): the year and the week of the year, both
\* zero padded to a fixed width, so that the strings order as the pairs do
strftime(t) == <<t.year, t.week>>

\* string order of two week ids
WeekLess(a, b) == a[1] < b[1] \/ (a[1] = b[1] /\ a[2] < b[2])

\* sorted(keys, reverse=True)
RECURSIVE SortedDescending(_)
SortedDescending(keys) ==
    IF keys = {} THEN <<>>
    ELSE LET top == CHOOSE k \in keys : \A o \in keys : o = k \/ WeekLess(o, k)
         IN  <<top>> \o SortedDescending(keys \ {top})

SessionStart == [year |-> 2026, week |-> 52]

\* ------------------------------------------------------- helper functions

\* faulty variant of ROI: the division without the Amount Spent > 0 test
ROI_Unguarded(row) ==
    Divide(Minus(row.ActualSales, row.AmountSpent), row.AmountSpent)

\* ROI of one row (lines 50-53): 0.0 unless Amount Spent > 0
ROI(row) ==
    IF Greater(row.AmountSpent, Zero)
    THEN Divide(Minus(row.ActualSales, row.AmountSpent), row.AmountSpent)
    ELSE Zero

\* faulty variant of ConversionRate: one formula for every channel but
\* Tele Calling, sales per site visit
ConversionRate_SharedFormula(row, weekly_target) ==
    IF row.Channel = "Tele Calling" THEN
        IF row.CallsMade > 0
        THEN Times(Divide(row.ActualSales, FromInt(row.CallsMade)), Hundred)
        ELSE Zero
    ELSE
        IF row.SiteVisitsReach > 0
        THEN Times(Divide(row.ActualSales, FromInt(row.SiteVisitsReach)), Hundred)
        ELSE Zero

\* Conversion Rate of one row (lines 56-70): 0.0 unless the branch of the
\* row's channel finds its own denominator > 0
ConversionRate(row, weekly_target) ==
    LET channel == row.Channel IN
    IF channel \in {"Meta Ads", "Google Ads"} THEN
        IF row.SiteVisitsReach > 0
        THEN Times(Divide(row.ActualSales, FromInt(row.SiteVisitsReach)), Hundred)
        ELSE Zero
    ELSE IF channel = "Tele Calling" THEN
        IF row.CallsMade > 0
        THEN Times(Divide(row.ActualSales, FromInt(row.CallsMade)), Hundred)
        ELSE Zero
    ELSE IF channel \in {"Relationship Sales", "Community Conversion", "Academic Schools"} THEN
        IF row.SiteVisitsReach > 0
        THEN Times(Divide(row.ActualSales, FromInt(row.SiteVisitsReach)), Hundred)
        ELSE Zero
    ELSE IF channel \in {"Whatsapp Broadcasting", "Organic Sales"} THEN
        IF Greater(weekly_target, Zero)
        THEN Times(Divide(row.ActualSales, weekly_target), Hundred)
        ELSE Zero
    ELSE Zero

\* calculate_metrics: a copy of the table with the two derived columns
calculate_metrics(channel_data, weekly_target) ==
    [i \in Rows |->
        [Channel          |-> channel_data[i].Channel,
         TargetPercentage |-> channel_data[i].TargetPercentage,
         WeeklyTarget     |-> channel_data[i].WeeklyTarget,
         AmountSpent      |-> channel_data[i].AmountSpent,
         ActualSales      |-> channel_data[i].ActualSales,
         SiteVisitsReach  |-> channel_data[i].SiteVisitsReach,
         CallsMade        |-> channel_data[i].CallsMade,
         ROI              |-> ROI(channel_data[i]),
         ConversionRate   |-> ConversionRate(channel_data[i], weekly_target)]]

\* update_weekly_targets: every row's Weekly Target := weekly_target * p / 100
update_weekly_targets(weekly_target, channel_data) ==
    [i \in Rows |->
        [channel_data[i] EXCEPT
            !.WeeklyTarget = Quotient64(Times(weekly_target, channel_data[i].TargetPercentage), Hundred)]]

\* ------------------------------------------------------- sidebar handlers

\* faulty variant of AddNewWeek: no membership test, an existing week is
\* overwritten
AddNewWeek_Overwrite(data, week, new_week) ==
    [weekly_data |->
         [w \in DOMAIN data \cup {new_week} |->
             IF w = new_week
             THEN [weekly_target |-> data[week].weekly_target,
                   channel_data  |-> data[week].channel_data]
             ELSE data[w]],
     current_week |-> new_week,
     rerun |-> TRUE]

\* faulty variant of AddNewWeek: the map is replaced by one holding the new
\* week alone
AddNewWeek_DropOthers(data, week, new_week) ==
    IF new_week \notin DOMAIN data
    THEN [weekly_data |->
              [w \in {new_week} |->
                  [weekly_target |-> data[week].weekly_target,
                   channel_data  |-> data[week].channel_data]],
          current_week |-> new_week,
          rerun |-> TRUE]
    ELSE [weekly_data |-> data, current_week |-> week, rerun |-> FALSE]

\* "Add New Week" (lines 106-116): the week of the clock, cloned from the
\* current week unless the map already holds it; rerun tells whether the
\* handler reached st.rerun()
AddNewWeek(data, week, new_week) ==
    IF new_week \notin DOMAIN data
    THEN [weekly_data |->
              [w \in DOMAIN data \cup {new_week} |->
                  IF w = new_week
                  THEN [weekly_target |-> data[week].weekly_target,
                        channel_data  |-> data[week].channel_data]
                  ELSE data[w]],
          current_week |-> new_week,
          rerun |-> TRUE]
    ELSE [weekly_data |-> data, current_week |-> week, rerun |-> FALSE]

\* faulty variant of SetWeeklyTarget: the rows are recomputed from the
\* target the ledger held before the assignment
SetWeeklyTarget_StaleTarget(current_data, new_weekly_target) ==
    IF new_weekly_target # current_data.weekly_target
    THEN [weekly_target |-> new_weekly_target,
          channel_data  |-> update_weekly_targets(current_data.weekly_target,
                                                  current_data.channel_data)]
    ELSE current_data

\* the weekly target input (lines 122-132)
SetWeeklyTarget(current_data, new_weekly_target) ==
    IF new_weekly_target # current_data.weekly_target
    THEN [weekly_target |-> new_weekly_target,
          channel_data  |-> update_weekly_targets(new_weekly_target, current_data.channel_data)]
    ELSE current_data

\* faulty variant of SetChannelPercentage: the percentage is stored and the
\* Weekly Target column is left as it was
SetChannelPercentage_NoRecompute(current_data, i, new_val) ==
    IF new_val # current_data.channel_data[i].TargetPercentage
    THEN [current_data EXCEPT !.channel_data[i].TargetPercentage = new_val]
    ELSE current_data

\* faulty variant of SetChannelPercentage: an edit that leaves the eight
\* percentages with a sum other than 100 is dropped
SetChannelPercentage_Rejecting(current_data, i, new_val) ==
    LET edited == [current_data.channel_data EXCEPT ![i].TargetPercentage = new_val] IN
    IF new_val # current_data.channel_data[i].TargetPercentage
       /\ SumPercentages(edited, 7) = Hundred
    THEN [current_data EXCEPT
            !.channel_data = update_weekly_targets(current_data.weekly_target, edited)]
    ELSE current_data

\* one channel's percentage input (lines 139-154)
SetChannelPercentage(current_data, i, new_val) ==
    IF new_val # current_data.channel_data[i].TargetPercentage
    THEN [current_data EXCEPT
            !.channel_data = update_weekly_targets(
                current_data.weekly_target,
                [current_data.channel_data EXCEPT ![i].TargetPercentage = new_val])]
    ELSE current_data

\* total_percentage as the loop of lines 137-156 leaves it: the sum of the
\* values the eight inputs show, which are the stored percentages
total_percentage(current_data) == SumPercentages(current_data.channel_data, 7)

\* the check of line 159
PercentageWarning(current_data) == total_percentage(current_data) # Hundred

\* faulty variant of ResetCurrentWeek: the ledger goes back to the table
\* of first use, target and percentages included
ResetCurrentWeek_ToInitial(current_data) == InitialLedger

\* faulty variant of ResetCurrentWeek: Calls Made receives the Site
\* Visits/Reach column instead of zeros
ResetCurrentWeek_WrongColumn(current_data) ==
    [current_data EXCEPT
        !.channel_data =
            [i \in Rows |->
                [current_data.channel_data[i] EXCEPT
                    !.AmountSpent = Zero,
                    !.ActualSales = Zero,
                    !.CallsMade = current_data.channel_data[i].SiteVisitsReach,
                    !.SiteVisitsReach = 0]]]

\* "Reset Current Week Data" (lines 165-169)
ResetCurrentWeek(current_data) ==
    [current_data EXCEPT
        !.channel_data =
            [i \in Rows |->
                [current_data.channel_data[i] EXCEPT
                    !.AmountSpent = Zero,
                    !.ActualSales = Zero,
                    !.SiteVisitsReach = 0,
                    !.CallsMade = 0]]]

\* ---------------------------------------------- "Channel Details" handlers

\* the activity input of a row (lines 246-265): Calls Made for Tele Calling,
\* Site Visits/Reach for every other channel
SetActivity(current_data, i, value) ==
    IF current_data.channel_data[i].Channel = "Tele Calling"
    THEN [current_data EXCEPT !.channel_data[i].CallsMade = value]
    ELSE [current_data EXCEPT !.channel_data[i].SiteVisitsReach = value]

\* the Amount Spent input (lines 269-277)
SetAmountSpent(current_data, i, amount_spent) ==
    [current_data EXCEPT !.channel_data[i].AmountSpent = amount_spent]

\* the Actual Sales input (lines 279-287)
SetActualSales(current_data, i, actual_sales) ==
    [current_data EXCEPT !.channel_data[i].ActualSales = actual_sales]

\* the activity value a row's input shows
ActivityOf(row) == IF row.Channel = "Tele Calling" THEN row.CallsMade ELSE row.SiteVisitsReach

\* ------------------------------------------------------------ user inputs

TargetInputs == {FromInt(0), FromInt(40000)}
PercentageInputs == {FromInt(0), FromInt(25)}
AmountInputs == {FromInt(0), FromInt(1000)}
SalesInputs == {FromInt(0), FromInt(1500)}
ActivityInputs == {0, 200}

\* the rows whose inputs the user edits in a session: one channel of every
\* branch of the conversion-rate dispatch
EditedRows == {0, 1, 3, 4}

\* ------------------------------------------------------------------- state

NoRow == -1

Event(kind, row, value, changed) ==
    [kind |-> kind, prev |-> event.kind, row |-> row, value |-> value, changed |-> changed]

HasActuals(current_data) ==
    \E i \in Rows :
        \/ current_data.channel_data[i].AmountSpent # Zero
        \/ current_data.channel_data[i].ActualSales # Zero
        \/ current_data.channel_data[i].SiteVisitsReach # 0
        \/ current_data.channel_data[i].CallsMade # 0

\* first run of the script (lines 19-43), then the rest of that run
Init ==
    /\ now = SessionStart
    /\ ticks = 0
    /\ weekly_data = [w \in {strftime(SessionStart)} |-> InitialLedger]
    /\ current_week = strftime(SessionStart)
    /\ selected_week = strftime(SessionStart)
    /\ warning = PercentageWarning(InitialLedger)
    /\ df = calculate_metrics(InitialLedger.channel_data, InitialLedger.weekly_target)
    /\ event = [kind |-> "start", prev |-> "none", row |-> NoRow, value |-> Zero, changed |-> FALSE]
    /\ runs = 0

\* what every run does after its handlers: the check of line 159 and the
\* metrics of the tabs, on the ledger the run ends with
RestOfRun ==
    /\ warning' = PercentageWarning(weekly_data'[current_week'])
    /\ df' = calculate_metrics(weekly_data'[current_week'].channel_data,
                               weekly_data'[current_week'].weekly_target)
    /\ runs' = runs + 1
    /\ UNCHANGED <<now, ticks>>

\* a calendar week passes: 2026 ends in its week 52 (31 December 2026 is a
\* Thursday) and 2027 starts with its week 00 (1 January 2027 is a Friday)
NextWeek(t) ==
    IF t.year = 2026 /\ t.week = 52
    THEN [year |-> 2027, week |-> 0]
    ELSE [t EXCEPT !.week = @ + 1]

Tick ==
    /\ ticks < MaxTicks
    /\ ticks' = ticks + 1
    /\ now' = NextWeek(now)
    /\ UNCHANGED <<weekly_data, current_week, selected_week, warning, df, event, runs>>

\* the user picks another week in the selectbox (lines 94-103)
SelectWeek(week) ==
    /\ runs < MaxRuns
    /\ week \in DOMAIN weekly_data
    /\ week # selected_week
    /\ selected_week' = week
    /\ current_week' = IF week # current_week THEN week ELSE current_week
    /\ weekly_data' = weekly_data
    /\ event' = Event("select", NoRow, Zero, TRUE)
    /\ RestOfRun

\* the user presses "Add New Week"; after st.rerun() the selectbox, whose
\* options changed, shows its first option again (index=0)
AddNewWeekClick ==
    /\ runs < MaxRuns
    /\ LET r == AddNewWeek(weekly_data, current_week, strftime(now))
           shown == IF r.rerun
                    THEN SortedDescending(DOMAIN r.weekly_data)[1]
                    ELSE selected_week
       IN  /\ weekly_data' = r.weekly_data
           /\ selected_week' = shown
           /\ current_week' = IF shown # r.current_week THEN shown ELSE r.current_week
           /\ event' = Event("add", NoRow, Zero, r.rerun)
    /\ RestOfRun

\* the user edits the weekly target
WeeklyTargetInput(new_weekly_target) ==
    /\ runs < MaxRuns
    /\ new_weekly_target # weekly_data[current_week].weekly_target
    /\ weekly_data' = [weekly_data EXCEPT
                          ![current_week] = SetWeeklyTarget(@, new_weekly_target)]
    /\ event' = Event("target", NoRow, new_weekly_target, TRUE)
    /\ UNCHANGED <<current_week, selected_week>>
    /\ RestOfRun

\* the user edits one channel's percentage
PercentageInput(i, new_val) ==
    /\ runs < MaxRuns
    /\ new_val # weekly_data[current_week].channel_data[i].TargetPercentage
    /\ weekly_data' = [weekly_data EXCEPT
                          ![current_week] = SetChannelPercentage(@, i, new_val)]
    /\ event' = Event("percentage", i, new_val, TRUE)
    /\ UNCHANGED <<current_week, selected_week>>
    /\ RestOfRun

\* the user presses "Reset Current Week Data"
ResetClick ==
    /\ runs < MaxRuns
    /\ weekly_data' = [weekly_data EXCEPT ![current_week] = ResetCurrentWeek(@)]
    /\ event' = Event("reset", NoRow, Zero, HasActuals(weekly_data[current_week]))
    /\ UNCHANGED <<current_week, selected_week>>
    /\ RestOfRun

\* the user edits Calls Made (Tele Calling) or Site Visits/Reach (the others)
ActivityInput(i, value) ==
    /\ runs < MaxRuns
    /\ value # ActivityOf(weekly_data[current_week].channel_data[i])
    /\ weekly_data' = [weekly_data EXCEPT ![current_week] = SetActivity(@, i, value)]
    /\ event' = Event("activity", i, FromInt(value), TRUE)
    /\ UNCHANGED <<current_week, selected_week>>
    /\ RestOfRun

\* the user edits Amount Spent
AmountSpentInput(i, amount_spent) ==
    /\ runs < MaxRuns
    /\ amount_spent # weekly_data[current_week].channel_data[i].AmountSpent
    /\ weekly_data' = [weekly_data EXCEPT ![current_week] = SetAmountSpent(@, i, amount_spent)]
    /\ event' = Event("spent", i, amount_spent, TRUE)
    /\ UNCHANGED <<current_week, selected_week>>
    /\ RestOfRun

\* the user edits Actual Sales
ActualSalesInput(i, actual_sales) ==
    /\ runs < MaxRuns
    /\ actual_sales # weekly_data[current_week].channel_data[i].ActualSales
    /\ weekly_data' = [weekly_data EXCEPT ![current_week] = SetActualSales(@, i, actual_sales)]
    /\ event' = Event("sales", i, actual_sales, TRUE)
    /\ UNCHANGED <<current_week, selected_week>>
    /\ RestOfRun

Next ==
    \/ Tick
    \/ \E week \in DOMAIN weekly_data : SelectWeek(week)
    \/ AddNewWeekClick
    \/ \E v \in TargetInputs : WeeklyTargetInput(v)
    \/ \E i \in EditedRows, v \in PercentageInputs : PercentageInput(i, v)
    \/ ResetClick
    \/ \E i \in EditedRows, v \in ActivityInputs : ActivityInput(i, v)
    \/ \E i \in EditedRows, v \in AmountInputs : AmountSpentInput(i, v)
    \/ \E i \in EditedRows, v \in SalesInputs : ActualSalesInput(i, v)

Spec == Init /\ [][Next]_vars

\* ------------------------------------------- the metrics as a function

MetricsSales == {FromInt(0), FromInt(1000), FromInt(1500)}
MetricsTargets == {FromInt(0), FromInt(40000), FromInt(50000)}

\* a ledger the handlers can produce: one row holds entered values, the
\* weekly target was entered too
EnteredLedger(i, amount_spent, actual_sales, activity, weekly_target) ==
    SetWeeklyTarget(
        SetActivity(SetActualSales(SetAmountSpent(InitialLedger, i, amount_spent), i, actual_sales),
                    i, activity),
        weekly_target)

\* a run that is about to call calculate_metrics (line 343) on a ledger
\* whose inputs were just written: df is still the table of the last run
InitMetrics ==
    /\ now = SessionStart
    /\ ticks = 0
    /\ current_week = strftime(SessionStart)
    /\ selected_week = strftime(SessionStart)
    /\ \E i \in Rows, amount_spent \in AmountInputs, actual_sales \in MetricsSales,
          activity \in ActivityInputs, weekly_target \in MetricsTargets :
            weekly_data = [w \in {strftime(SessionStart)} |->
                EnteredLedger(i, amount_spent, actual_sales, activity, weekly_target)]
    /\ warning = PercentageWarning(InitialLedger)
    /\ df = calculate_metrics(InitialLedger.channel_data, InitialLedger.weekly_target)
    /\ event = [kind |-> "start", prev |-> "none", row |-> NoRow, value |-> Zero, changed |-> FALSE]
    /\ runs = 0

\* df = calculate_metrics(current_data['channel_data'], current_data['weekly_target'])
ComputeMetrics ==
    /\ event.kind # "metrics"
    /\ df' = calculate_metrics(weekly_data[current_week].channel_data,
                               weekly_data[current_week].weekly_target)
    /\ event' = Event("metrics", NoRow, Zero, TRUE)
    /\ UNCHANGED <<weekly_data, current_week, selected_week, now, ticks, warning, runs>>

NextMetrics == ComputeMetrics

SpecMetrics == InitMetrics /\ [][NextMetrics]_vars

\* ------------------------------------- the target split as a function

\* percentages the eight inputs can hold, row by row; the last two do not
\* sum to 100
Splits ==
    {<<FromInt(22), FromInt(4), FromInt(19), FromInt(5),
       FromInt(2), FromInt(18), FromInt(21), FromInt(9)>>,
     <<FromInt(2), FromInt(18), FromInt(0), FromInt(22),
       FromInt(4), FromInt(1), FromInt(21), FromInt(32)>>,
     <<FromInt(10), FromInt(10), FromInt(10), FromInt(10),
       FromInt(10), FromInt(10), FromInt(10), FromInt(30)>>,
     <<DefaultPercentage, DefaultPercentage, DefaultPercentage, DefaultPercentage,
       FromInt(3), FromInt(22), FromInt(25), FromInt(0)>>,
     <<FromInt(100), FromInt(0), FromInt(0), FromInt(0),
       FromInt(0), FromInt(0), FromInt(0), FromInt(0)>>,
     <<FromInt(50), FromInt(30), FromInt(30), FromInt(0),
       FromInt(0), FromInt(0), FromInt(0), FromInt(0)>>,
     <<FromInt(22), FromInt(4), FromInt(19), FromInt(5),
       FromInt(2), FromInt(18), FromInt(21), FromInt(8)>>}

SplitTargets == {FromInt(0), FromInt(1), FromInt(3), FromInt(12345), FromInt(40000)}

\* the ledger of first use after the eight percentage inputs were edited
SplitLedger(split, shift) ==
    [weekly_target |-> DefaultWeeklyTarget,
     channel_data |->
        update_weekly_targets(DefaultWeeklyTarget,
            [i \in Rows |->
                [InitialChannelData[i] EXCEPT
                    !.TargetPercentage = split[((i + shift) % 8) + 1]]])]

InitTargets ==
    /\ now = SessionStart
    /\ ticks = 0
    /\ current_week = strftime(SessionStart)
    /\ selected_week = strftime(SessionStart)
    /\ \E split \in Splits, shift \in Rows :
        /\ weekly_data = [w \in {strftime(SessionStart)} |-> SplitLedger(split, shift)]
        /\ warning = PercentageWarning(SplitLedger(split, shift))
        /\ df = calculate_metrics(SplitLedger(split, shift).channel_data, DefaultWeeklyTarget)
    /\ event = [kind |-> "start", prev |-> "none", row |-> NoRow, value |-> Zero, changed |-> FALSE]
    /\ runs = 0

NextTargets == \E v \in SplitTargets : WeeklyTargetInput(v)

SpecTargets == InitTargets /\ [][NextTargets]_vars

\* ================================================================ properties

current_data == weekly_data[current_week]

\* the eight percentages of a table, added one by one
SumOfPercentages(channel_data) ==
    Plus(Plus(Plus(Plus(Plus(Plus(Plus(
        channel_data[0].TargetPercentage, channel_data[1].TargetPercentage),
        channel_data[2].TargetPercentage), channel_data[3].TargetPercentage),
        channel_data[4].TargetPercentage), channel_data[5].TargetPercentage),
        channel_data[6].TargetPercentage), channel_data[7].TargetPercentage)

\* the eight channel targets of a table, added from the first row to the
\* last as a loop over the rows adds them, in float arithmetic
SumOfChannelTargets(channel_data) ==
    Add64(Add64(Add64(Add64(Add64(Add64(Add64(
        channel_data[0].WeeklyTarget, channel_data[1].WeeklyTarget),
        channel_data[2].WeeklyTarget), channel_data[3].WeeklyTarget),
        channel_data[4].WeeklyTarget), channel_data[5].WeeklyTarget),
        channel_data[6].WeeklyTarget), channel_data[7].WeeklyTarget)

\* the quotient a row's channel target is derived as
DerivedTarget(weekly_target, percentage) ==
    Quotient64(Times(weekly_target, percentage), Hundred)

\* |x - n| for a binary64 x and a natural n
Distance64(x, n) ==
    IF x[1] >= n THEN <<x[1] - n, x[2], x[3], x[4]>>
    ELSE IF x[2] = 0 /\ x[3] = 0 /\ x[4] = 0 THEN <<n - x[1], 0, 0, 0>>
    ELSE Carry(<<n - x[1] - 1, LimbBase - 1 - x[2], LimbBase - 1 - x[3], LimbBase - x[4]>>)

\* x <= y, both fixed-point
AtMost64(x, y) ==
    \/ x = y
    \/ \E j \in 1..4 : x[j] < y[j] /\ \A k \in 1..(j - 1) : x[k] = y[k]

\* n * 2^-48, n a natural below 2^25
Tolerance64(n) == <<0, 0, n \div 4, (n % 4) * 2^21>>

ActualsAreZero(row) ==
    /\ row.AmountSpent = Zero
    /\ row.ActualSales = Zero
    /\ row.SiteVisitsReach = 0
    /\ row.CallsMade = 0

\* a step that is a script run (the clock's steps are not)
IsRun == runs' # runs

\* C1: "Add New Week" with a week id the map does not hold yet creates a
\* ledger with the weekly target and the eight percentages of the current
\* ledger and with amount spent, actual sales, site visits and calls made 0
\* in all eight rows, whatever the current ledger holds there.
C1_CloneZeroesActuals ==
    [][(IsRun /\ event'.kind = "add" /\ strftime(now) \notin DOMAIN weekly_data) =>
        /\ strftime(now) \in DOMAIN weekly_data'
        /\ weekly_data'[strftime(now)].weekly_target = current_data.weekly_target
        /\ \A i \in Rows :
            /\ weekly_data'[strftime(now)].channel_data[i].TargetPercentage
                   = current_data.channel_data[i].TargetPercentage
            /\ ActualsAreZero(weekly_data'[strftime(now)].channel_data[i])]_vars

\* C2: in every reachable state every row of every ledger has
\* Weekly Target = ledger weekly target * Target Percentage / 100.
C2_ChannelTargetsDerived ==
    \A w \in DOMAIN weekly_data : \A i \in Rows :
        weekly_data[w].channel_data[i].WeeklyTarget
            = DerivedTarget(weekly_data[w].weekly_target,
                            weekly_data[w].channel_data[i].TargetPercentage)

\* a percentage edit on a ledger whose weekly target is neither the default
\* nor 0 has recomputed the rows
C2_Witness ==
    /\ event.kind = "percentage"
    /\ current_data.weekly_target = FromInt(40000)
    /\ current_data.channel_data[event.row].TargetPercentage = FromInt(25)
    /\ current_data.channel_data[event.row].WeeklyTarget = FromInt64(10000)

\* C3 as stated: after the weekly target input set a new target on a ledger
\* whose eight percentages sum to 100, the eight channel targets sum to the
\* new target exactly, and the ledger's weekly target is the new target.
C3_TargetsSumExactly ==
    (event.kind = "target" /\ SumOfPercentages(current_data.channel_data) = Hundred) =>
        /\ current_data.weekly_target = event.value
        /\ SumOfChannelTargets(current_data.channel_data) = FromInt64(event.value.num)

\* C3 as amended: ... the eight channel targets sum to the new target within
\* floating-point tolerance, |sum - target| <= target * 2^-48, and the
\* ledger's weekly target is the new target.
C3_TargetsSumWithinTolerance ==
    (event.kind = "target" /\ SumOfPercentages(current_data.channel_data) = Hundred) =>
        /\ current_data.weekly_target = event.value
        /\ AtMost64(Distance64(SumOfChannelTargets(current_data.channel_data), event.value.num),
                    Tolerance64(event.value.num))

\* a new positive target set on percentages that sum to 100: the channel
\* targets are rounded quotients and their sum misses the target by less
\* than the tolerance
C3_Witness ==
    /\ event.kind = "target"
    /\ event.value = FromInt(12345)
    /\ current_data.weekly_target = FromInt(12345)
    /\ SumOfPercentages(current_data.channel_data) = Hundred
    /\ SumOfChannelTargets(current_data.channel_data) # FromInt64(12345)
    /\ \E i \in Rows : current_data.channel_data[i].TargetPercentage # DefaultPercentage

\* C4: a percentage edit is applied whatever sum it leaves: the row holds
\* the entered percentage and its channel target is recomputed; the warning
\* is shown exactly when the percentages of the current ledger do not sum
\* to 100.
C4_PercentageEditNeverRejected ==
    /\ warning <=> (SumOfPercentages(current_data.channel_data) # Hundred)
    /\ event.kind = "percentage" =>
        /\ current_data.channel_data[event.row].TargetPercentage = event.value
        /\ current_data.channel_data[event.row].WeeklyTarget
               = DerivedTarget(current_data.weekly_target, event.value)

\* an edit that left a sum other than 100 was applied, with the warning
C4_Witness ==
    /\ event.kind = "percentage"
    /\ warning
    /\ SumOfPercentages(current_data.channel_data) # Hundred
    /\ current_data.channel_data[event.row].TargetPercentage = event.value
    /\ event.value # DefaultPercentage

\* C5: "Reset Current Week Data" zeroes amount spent, actual sales, site
\* visits and calls made in the eight rows of the current ledger and leaves
\* its weekly target, every row's percentage and channel target, the set of
\* week ids, the current week and every other ledger unchanged.
C5_ResetFrame ==
    [][(IsRun /\ event'.kind = "reset") =>
        /\ current_week' = current_week
        /\ DOMAIN weekly_data' = DOMAIN weekly_data
        /\ \A w \in DOMAIN weekly_data \ {current_week} : weekly_data'[w] = weekly_data[w]
        /\ weekly_data'[current_week].weekly_target = current_data.weekly_target
        /\ \A i \in Rows :
            LET before == current_data.channel_data[i]
                after == weekly_data'[current_week].channel_data[i]
            IN  /\ ActualsAreZero(after)
                /\ after.Channel = before.Channel
                /\ after.TargetPercentage = before.TargetPercentage
                /\ after.WeeklyTarget = before.WeeklyTarget]_vars

\* a reset cleared entered values while another week's ledger kept its own
C5_Witness ==
    /\ event.kind = "reset"
    /\ event.changed
    /\ \A i \in Rows : ActualsAreZero(current_data.channel_data[i])
    /\ \E w \in DOMAIN weekly_data : w # current_week /\ HasActuals(weekly_data[w])

\* C6: "Add New Week" with a week id the map already holds changes neither
\* the map (no ledger added, the ledger under that id keeps its target,
\* percentages and actuals) nor the current week.
C6_CollidingCloneIsNoOp ==
    [][(IsRun /\ event'.kind = "add" /\ strftime(now) \in DOMAIN weekly_data) =>
        /\ weekly_data' = weekly_data
        /\ current_week' = current_week]_vars

\* the button was pressed for a week that exists and is not the current
\* week, so that a clone would have replaced its ledger
C6_Witness ==
    /\ event.kind = "add"
    /\ ~event.changed
    /\ strftime(now) \in DOMAIN weekly_data
    /\ strftime(now) # current_week
    /\ Cardinality(DOMAIN weekly_data) = 2

\* C7: the ROI of every row is (actual sales - amount spent) / amount spent
\* when amount spent > 0 and 0 when amount spent = 0, whatever the actual
\* sales; it is always a number (no division by zero).
C7_RoiFormula ==
    event.kind = "metrics" =>
        \A i \in Rows :
            LET row == current_data.channel_data[i] IN
            /\ IsNumber(df[i].ROI)
            /\ row.AmountSpent.num > 0 =>
                   Times(df[i].ROI, row.AmountSpent) = Minus(row.ActualSales, row.AmountSpent)
            /\ row.AmountSpent = Zero => df[i].ROI = Zero

\* metrics computed for a row with sales and nothing spent
C7_Witness ==
    /\ event.kind = "metrics"
    /\ \E i \in Rows :
        /\ current_data.channel_data[i].AmountSpent = Zero
        /\ current_data.channel_data[i].ActualSales = FromInt(1500)
        /\ df[i].ROI = Zero

VisitChannels ==
    {"Meta Ads", "Google Ads", "Relationship Sales", "Community Conversion", "Academic Schools"}
CallChannels == {"Tele Calling"}
TargetChannels == {"Whatsapp Broadcasting", "Organic Sales"}

\* the denominator the conversion rate of a row is to use
ConversionDenominator(row, weekly_target) ==
    IF row.Channel \in VisitChannels THEN FromInt(row.SiteVisitsReach)
    ELSE IF row.Channel \in CallChannels THEN FromInt(row.CallsMade)
    ELSE weekly_target

\* C8: the conversion rate of a row is actual sales / denominator * 100,
\* the denominator being site visits for Meta Ads, Google Ads, Relationship
\* Sales, Community Conversion and Academic Schools, calls made for Tele
\* Calling and the ledger's weekly target for Whatsapp Broadcasting and
\* Organic Sales; it is 0 when that denominator is 0, and depends on no
\* other denominator.
C8_ConversionRateDispatch ==
    event.kind = "metrics" =>
        \A i \in Rows :
            LET row == current_data.channel_data[i]
                denominator == ConversionDenominator(row, current_data.weekly_target)
            IN  /\ row.Channel \in VisitChannels \cup CallChannels \cup TargetChannels
                /\ IsNumber(df[i].ConversionRate)
                /\ denominator = Zero => df[i].ConversionRate = Zero
                /\ denominator # Zero =>
                       Times(df[i].ConversionRate, denominator) = Times(row.ActualSales, Hundred)

\* Organic Sales with sales 1500, 200 site visits and a ledger target of
\* 40000: 3.75, neither 750 (by visits) nor 30 (by the row's own target)
C8_Witness ==
    /\ event.kind = "metrics"
    /\ current_data.weekly_target = FromInt(40000)
    /\ current_data.channel_data[6].Channel = "Organic Sales"
    /\ current_data.channel_data[6].ActualSales = FromInt(1500)
    /\ current_data.channel_data[6].SiteVisitsReach = 200
    /\ df[6].ConversionRate = Rat(15, 4)

\* C9: a reset that follows a reset changes nothing: two resets in
\* succession leave the state the first one left.
C9_ResetIdempotent ==
    [][(IsRun /\ event.kind = "reset" /\ event'.kind = "reset") =>
        /\ weekly_data' = weekly_data
        /\ current_week' = current_week
        /\ selected_week' = selected_week
        /\ warning' = warning
        /\ df' = df]_vars

\* a second reset in succession
C9_Witness ==
    /\ event.kind = "reset"
    /\ event.prev = "reset"
    /\ ~event.changed

\* C10: the current week is always a key of the map, and no step removes a
\* key.
C10_CurrentWeekExistsAndWeeksKept ==
    /\ [](current_week \in DOMAIN weekly_data)
    /\ [][DOMAIN weekly_data \subseteq DOMAIN weekly_data']_vars

\* two weeks exist and the user went back to the older one
C10_Witness ==
    /\ event.kind = "select"
    /\ Cardinality(DOMAIN weekly_data) = 2
    /\ current_week # strftime(now)
    /\ current_week \in DOMAIN weekly_data

====
